---- MODULE Spec2Model ----
(***************************************************************************)
(* AgentKeeper: the cognitive state (an ordered store of facts), the       *)
(* reconstruction engine that selects facts under a token budget, and the  *)
(* SQLite persistence of cognitive states.                                 *)
(***************************************************************************)
EXTENDS Integers, Sequences, FiniteSets, TLC

VARIABLES
    cso,      \* the agent's CognitiveStateObject (src/cso/types.py)
    clock,    \* datetime.utcnow(): ticks read so far
    uuid,     \* uuid.uuid4(): number of identifiers drawn so far
    engine,   \* TRUE when a CognitiveReconstructionEngine over cso exists
    ret,      \* what the last call returned (or raised)
    db,       \* the agents table: agent_id -> row, or NoRow
    saved,    \* history: agent_id -> the state last saved and not deleted since, or None
    est       \* the cost estimator's inputs and outputs

vars == <<cso, clock, uuid, engine, ret, db, saved, est>>

-----------------------------------------------------------------------------
(* Bounds of the model *)

MaxFacts == 3        \* facts ever appended to one store (selection model)
MaxBudget == 3       \* largest max_tokens passed to a selection
MaxTextLen == 12     \* longest text given to the estimator
MaxDbFacts == 2      \* facts ever appended (persistence model)
MaxClock == 5        \* clock reads (persistence model)

-----------------------------------------------------------------------------
(* Texts *)

RECURSIVE Text(_)
Text(n) == IF n = 0 THEN "" ELSE Text(n - 1) \o "x"

Texts == {Text(n) : n \in 0..MaxTextLen}

\* len(text) // 4: about one token per four characters
CharsPerToken == 4

\* the contents offered to append: a one-token and a two-token text, neither
\* a whole number of tokens long
ShortText == Text(CharsPerToken + 1)

LongText == Text(2 * CharsPerToken + 1)

Contents == {ShortText, LongText}

Max(a, b) == IF a >= b THEN a ELSE b

\* a plausible slip: no floor of one token
estimate_tokens_nofloor(text) == Len(text) \div CharsPerToken

estimate_tokens(text) == Max(1, Len(text) \div CharsPerToken)

-----------------------------------------------------------------------------
(* Cognitive state *)

isoformat(t) == ToString(t)

FactId(n) == "f" \o ToString(n)

Fact_create(id, content, critical) ==
    [id |-> id, content |-> content, critical |-> critical, token_count |-> 0]

CognitiveStateObject_create(agent_id, t) ==
    [agent_id |-> agent_id, memory_facts |-> <<>>,
     created_at |-> isoformat(t), updated_at |-> isoformat(t + 1)]

\* a plausible slip: the fact is put in front of the list
add_fact_front(c, id, content, critical, t) ==
    [c EXCEPT !.memory_facts = <<Fact_create(id, content, critical)>> \o @,
              !.updated_at = isoformat(t)]

add_fact(c, id, content, critical, t) ==
    [c EXCEPT !.memory_facts = Append(@, Fact_create(id, content, critical)),
              !.updated_at = isoformat(t)]

critical_facts(c) == SelectSeq(c.memory_facts, LAMBDA f : f.critical)

forget(c, fact_id) ==
    [c EXCEPT !.memory_facts = SelectSeq(@, LAMBDA f : f.id # fact_id)]

count_tokens_for_all_facts(c) ==
    LET fs == c.memory_facts IN
    [c EXCEPT !.memory_facts =
        [i \in 1..Len(fs) |->
            [fs[i] EXCEPT !.token_count = estimate_tokens(fs[i].content)]]]

Ids(c) == [i \in 1..Len(c.memory_facts) |-> c.memory_facts[i].id]

-----------------------------------------------------------------------------
(* Reconstruction engine *)

\* an optional int: None is the empty tuple, an int n is <<n>>
None == <<>>

Some(n) == <<n>>

MODEL_TOKEN_LIMITS ==
    [m \in {"gpt-4", "gpt-4-turbo", "claude-3-5-sonnet-20241022", "claude-3-haiku"} |->
        CASE m = "gpt-4" -> 6000
          [] m = "gpt-4-turbo" -> 8000
          [] m = "claude-3-5-sonnet-20241022" -> 8000
          [] m = "claude-3-haiku" -> 4000]

DEFAULT_TOKEN_LIMIT == 4000

\* max_tokens or MODEL_TOKEN_LIMITS.get(target_model, DEFAULT_TOKEN_LIMIT):
\* Python's "or" takes the right side when max_tokens is None or 0
budget_for(target_model, max_tokens) ==
    IF max_tokens = None \/ max_tokens[1] = 0
    THEN IF target_model \in DOMAIN MODEL_TOKEN_LIMITS
         THEN MODEL_TOKEN_LIMITS[target_model]
         ELSE DEFAULT_TOKEN_LIMIT
    ELSE max_tokens[1]

\* a plausible slip: the sort key is the token count alone
sort_key_le_cost_only(a, b) == a.token_count <= b.token_count

\* a plausible slip: the costliest facts first within a tier (reverse=True)
sort_key_le_costliest_first(a, b) ==
    LET ka == IF a.critical THEN 0 ELSE 1
        kb == IF b.critical THEN 0 ELSE 1
    IN  ka < kb \/ (ka = kb /\ a.token_count >= b.token_count)

\* key = (0 if f.critical else 1, f.token_count), compared as tuples
sort_key_le(a, b) ==
    LET ka == IF a.critical THEN 0 ELSE 1
        kb == IF b.critical THEN 0 ELSE 1
    IN  ka < kb \/ (ka = kb /\ a.token_count <= b.token_count)

\* a plausible slip: an unstable insertion, in front of equal keys
insert_sorted_unstable(s, f) ==
    LET n == Cardinality({i \in 1..Len(s) : ~sort_key_le(f, s[i])})
    IN  SubSeq(s, 1, n) \o <<f>> \o SubSeq(s, n + 1, Len(s))

\* sorted() is stable: f goes behind every element whose key is <= its own
insert_sorted(s, f) ==
    LET n == Cardinality({i \in 1..Len(s) : sort_key_le(s[i], f)})
    IN  SubSeq(s, 1, n) \o <<f>> \o SubSeq(s, n + 1, Len(s))

RECURSIVE sorted(_)
sorted(facts) ==
    IF facts = <<>> THEN <<>>
    ELSE insert_sorted(sorted(SubSeq(facts, 1, Len(facts) - 1)), facts[Len(facts)])

\* a plausible slip: the running total alone is compared with the budget
fits_ignoring_fact(used_tokens, fact, budget) == used_tokens <= budget

fits(used_tokens, fact, budget) == used_tokens + fact.token_count <= budget

\* the index the backward scan stops at: the last non-critical entry, or 0
last_non_critical(selected) ==
    LET S == {i \in 1..Len(selected) : ~selected[i].critical}
    IN  IF S = {} THEN 0 ELSE CHOOSE i \in S : \A j \in S : j <= i

remove_at(s, i) == SubSeq(s, 1, i - 1) \o SubSeq(s, i + 1, Len(s))

\* one iteration of the loop over sorted_facts; st.popped lists the entries
\* that selected.pop(i) removed
prioritize_step(st, fact, budget) ==
    IF fits(st.used_tokens, fact, budget)
    THEN [st EXCEPT !.selected = Append(@, fact),
                    !.used_tokens = @ + fact.token_count]
    ELSE IF fact.critical
    THEN LET i == last_non_critical(st.selected)
             s1 == IF i = 0 THEN st
                   ELSE [selected |-> remove_at(st.selected, i),
                         used_tokens |-> st.used_tokens - st.selected[i].token_count,
                         popped |-> Append(st.popped, st.selected[i])]
         IN  IF fits(s1.used_tokens, fact, budget)
             THEN [s1 EXCEPT !.selected = Append(@, fact),
                             !.used_tokens = @ + fact.token_count]
             ELSE s1
    ELSE st

RECURSIVE prioritize_loop(_, _, _)
prioritize_loop(sorted_facts, n, budget) ==
    IF n = 0 THEN [selected |-> <<>>, used_tokens |-> 0, popped |-> <<>>]
    ELSE prioritize_step(prioritize_loop(sorted_facts, n - 1, budget),
                         sorted_facts[n], budget)

prioritize(c, target_model, max_tokens) ==
    LET sorted_facts == sorted(c.memory_facts)
    IN  prioritize_loop(sorted_facts, Len(sorted_facts),
                        budget_for(target_model, max_tokens))

RECURSIVE SumTokens(_)
SumTokens(s) == IF s = <<>> THEN 0 ELSE s[1].token_count + SumTokens(Tail(s))

\* a plausible slip: with no critical fact, everything counts as recovered
recovery_rate_vacuous_one(critical_selected, critical_total) ==
    IF critical_total = 0 THEN 1000
    ELSE (2000 * critical_selected + critical_total) \div (2 * critical_total)

\* round(critical_selected / critical_total, 3) if critical_total else 0, in
\* thousandths (no quotient of the model falls halfway between two of them)
recovery_rate(critical_selected, critical_total) ==
    IF critical_total = 0 THEN 0
    ELSE (2000 * critical_selected + critical_total) \div (2 * critical_total)

reconstruction_stats(c, target_model, max_tokens) ==
    LET selected == prioritize(c, target_model, max_tokens).selected
        critical_total == Len(critical_facts(c))
        critical_selected == Len(SelectSeq(selected, LAMBDA f : f.critical))
    IN  [total_facts |-> Len(c.memory_facts),
         selected_facts |-> Len(selected),
         critical_total |-> critical_total,
         critical_selected |-> critical_selected,
         critical_recovery_rate |-> recovery_rate(critical_selected, critical_total),
         tokens_used |-> SumTokens(selected),
         token_budget |-> budget_for(target_model, max_tokens)]

fact_line(f) == "- " \o (IF f.critical THEN "[CRITICAL] " ELSE "") \o f.content

build_context_prompt(c, target_model, task, max_tokens) ==
    LET facts == prioritize(c, target_model, max_tokens).selected
    IN  IF facts = <<>> THEN <<"Task: " \o task>>
        ELSE <<"You are a persistent AI agent. Your memory from previous sessions:">>
             \o [i \in 1..Len(facts) |-> fact_line(facts[i])]
             \o <<"Current task: " \o task,
                  "Use your memory to maintain continuity. Do not ask for information you already have.">>

-----------------------------------------------------------------------------
(* Persistence: to_dict / from_dict, JSON text, the agents table *)

to_dict(c) ==
    [agent_id |-> c.agent_id,
     memory_facts |->
        [i \in 1..Len(c.memory_facts) |->
            [id |-> c.memory_facts[i].id,
             content |-> c.memory_facts[i].content,
             critical |-> c.memory_facts[i].critical,
             token_count |-> c.memory_facts[i].token_count]],
     created_at |-> c.created_at,
     updated_at |-> c.updated_at]

\* a plausible slip: the critical flag is not read back
from_dict_drop_critical(data) ==
    [agent_id |-> data.agent_id,
     memory_facts |->
        [i \in 1..Len(data.memory_facts) |->
            [id |-> data.memory_facts[i].id,
             content |-> data.memory_facts[i].content,
             critical |-> FALSE,
             token_count |-> data.memory_facts[i].token_count]],
     created_at |-> data.created_at,
     updated_at |-> data.updated_at]

from_dict(data) ==
    [agent_id |-> data.agent_id,
     memory_facts |->
        [i \in 1..Len(data.memory_facts) |->
            [id |-> data.memory_facts[i].id,
             content |-> data.memory_facts[i].content,
             critical |-> data.memory_facts[i].critical,
             token_count |-> data.memory_facts[i].token_count]],
     created_at |-> data.created_at,
     updated_at |-> data.updated_at]

\* JSON text as its sequence of value tokens, in document order:
\* agent_id, then id, content, critical, token_count of each fact, then the
\* two timestamps
json_bool(b) == IF b THEN "true" ELSE "false"

json_fact(f) == <<f.id, f.content, json_bool(f.critical), ToString(f.token_count)>>

RECURSIVE json_facts(_)
json_facts(fs) == IF fs = <<>> THEN <<>> ELSE json_fact(fs[1]) \o json_facts(Tail(fs))

json_dumps(d) ==
    <<d.agent_id>> \o json_facts(d.memory_facts) \o <<d.created_at, d.updated_at>>

\* the token counts of the model have one digit
parse_int(s) == CHOOSE n \in 0..9 : ToString(n) = s

parse_bool(s) == s = "true"

json_loads(text) ==
    LET n == (Len(text) - 3) \div 4 IN
    [agent_id |-> text[1],
     memory_facts |->
        [i \in 1..n |->
            [id |-> text[4 * i - 2],
             content |-> text[4 * i - 1],
             critical |-> parse_bool(text[4 * i]),
             token_count |-> parse_int(text[4 * i + 1])]],
     created_at |-> text[Len(text) - 1],
     updated_at |-> text[Len(text)]]

NoRow == <<>>

AgentIds == {"a1", "a2"}

\* INSERT OR REPLACE INTO agents ... VALUES (agent_id, state_json, created_at, updated_at)
Storage_save(table, c) ==
    [table EXCEPT ![c.agent_id] =
        <<json_dumps(to_dict(c)), c.created_at, c.updated_at>>]

\* SELECT state_json FROM agents WHERE agent_id = ?  ->  the state, or None
Storage_load(table, agent_id) ==
    IF table[agent_id] # NoRow
    THEN Some(from_dict(json_loads(table[agent_id][1])))
    ELSE None

\* a plausible slip: DELETE FROM agents without the WHERE clause
Storage_delete_all(table, agent_id) == [a \in DOMAIN table |-> NoRow]

\* DELETE FROM agents WHERE agent_id = ?
Storage_delete(table, agent_id) == [table EXCEPT ![agent_id] = NoRow]

-----------------------------------------------------------------------------
(* Inputs *)

Budgets == {None} \cup {Some(n) : n \in -1..MaxBudget}

TokenBudgets == -1..MaxBudget

\* model names given to the engine, provider names given to the agent
Models == {"gpt-4"}

Providers == {"anthropic", "gpt-4"}

PROVIDERS == {"openai", "anthropic", "gemini", "ollama", "mock"}

Tasks == {"q"}

-----------------------------------------------------------------------------
(* Initial state: agentkeeper.create("a1"), an empty agents table *)

Init ==
    /\ cso = CognitiveStateObject_create("a1", 0)
    /\ clock = 2
    /\ uuid = 0
    /\ engine = FALSE
    /\ ret = [op |-> "create"]
    /\ db = [a \in AgentIds |-> NoRow]
    /\ saved = [a \in AgentIds |-> None]
    /\ est = [a |-> "", b |-> "", done |-> FALSE, ta |-> 0, tb |-> 0]

-----------------------------------------------------------------------------
(* Store operations: Agent.remember / CognitiveStateObject.add_fact, Agent.forget *)

Remember(content, critical) ==
    /\ cso' = add_fact(cso, FactId(uuid + 1), content, critical, clock)
    /\ uuid' = uuid + 1
    /\ clock' = clock + 1
    /\ ret' = [op |-> "remember"]
    /\ UNCHANGED <<engine, db, saved, est>>

Forget(fact_id) ==
    /\ cso' = forget(cso, fact_id)
    /\ ret' = [op |-> "forget", fact_id |-> fact_id]
    /\ UNCHANGED <<clock, uuid, engine, db, saved, est>>

-----------------------------------------------------------------------------
(* Engine operations, on an engine the caller keeps *)

\* CognitiveReconstructionEngine(cso): the only place costs are recomputed
NewEngine ==
    /\ cso' = count_tokens_for_all_facts(cso)
    /\ engine' = TRUE
    /\ ret' = [op |-> "engine"]
    /\ UNCHANGED <<clock, uuid, db, saved, est>>

\* a plausible slip: memory_facts.sort(key=...) in place of sorted(...)
Prioritize_sorting_in_place(target_model, max_tokens) ==
    /\ engine
    /\ cso' = [cso EXCEPT !.memory_facts = sorted(@)]
    /\ LET run == prioritize(cso, target_model, max_tokens) IN
       ret' = [op |-> "prioritize", target_model |-> target_model,
               max_tokens |-> max_tokens, selected |-> run.selected,
               used_tokens |-> run.used_tokens, popped |-> run.popped]
    /\ UNCHANGED <<clock, uuid, engine, db, saved, est>>

\* the return of prioritize, with the locals of its run: used_tokens, and
\* popped, the entries selected.pop(i) removed
Prioritize(target_model, max_tokens) ==
    /\ engine
    /\ LET run == prioritize(cso, target_model, max_tokens) IN
       ret' = [op |-> "prioritize", target_model |-> target_model,
               max_tokens |-> max_tokens, selected |-> run.selected,
               used_tokens |-> run.used_tokens, popped |-> run.popped]
    /\ UNCHANGED <<cso, clock, uuid, engine, db, saved, est>>

ReconstructionStats(target_model, max_tokens) ==
    /\ engine
    /\ ret' = [op |-> "reconstruction_stats", target_model |-> target_model,
               max_tokens |-> max_tokens,
               value |-> reconstruction_stats(cso, target_model, max_tokens)]
    /\ UNCHANGED <<cso, clock, uuid, engine, db, saved, est>>

BuildContextPrompt(target_model, task, max_tokens) ==
    /\ engine
    /\ ret' = [op |-> "build_context_prompt", target_model |-> target_model,
               max_tokens |-> max_tokens,
               value |-> build_context_prompt(cso, target_model, task, max_tokens)]
    /\ UNCHANGED <<cso, clock, uuid, engine, db, saved, est>>

-----------------------------------------------------------------------------
(* Agent operations (agentkeeper.py): each builds its own engine *)

Create(agent_id) ==
    /\ cso' = CognitiveStateObject_create(agent_id, clock)
    /\ clock' = clock + 2
    /\ engine' = FALSE
    /\ ret' = [op |-> "create"]
    /\ UNCHANGED <<uuid, db, saved, est>>

Ask(question, provider, token_budget) ==
    IF provider \notin PROVIDERS
    THEN /\ ret' = [op |-> "ask", error |-> "ValueError"]
         /\ UNCHANGED <<cso, clock, uuid, engine, db, saved, est>>
    ELSE LET c == count_tokens_for_all_facts(cso) IN
         /\ cso' = c
         /\ ret' = [op |-> "ask", target_model |-> provider,
                    max_tokens |-> Some(token_budget), error |-> "",
                    value |-> build_context_prompt(c, provider, question, Some(token_budget))]
         /\ UNCHANGED <<clock, uuid, engine, db, saved, est>>

Stats(provider, token_budget) ==
    LET c == count_tokens_for_all_facts(cso) IN
    /\ cso' = c
    /\ ret' = [op |-> "stats", target_model |-> provider,
               max_tokens |-> Some(token_budget),
               value |-> reconstruction_stats(c, provider, Some(token_budget))]
    /\ UNCHANGED <<clock, uuid, engine, db, saved, est>>

Save ==
    /\ db' = Storage_save(db, cso)
    /\ saved' = [saved EXCEPT ![cso.agent_id] = Some(cso)]
    /\ ret' = [op |-> "save", agent_id |-> cso.agent_id]
    /\ UNCHANGED <<cso, clock, uuid, engine, est>>

\* agentkeeper.load: ValueError when the storage returns None
Load(agent_id) ==
    LET got == Storage_load(db, agent_id) IN
    IF got = None
    THEN /\ ret' = [op |-> "load", agent_id |-> agent_id, error |-> "ValueError"]
         /\ UNCHANGED <<cso, clock, uuid, engine, db, saved, est>>
    ELSE /\ cso' = got[1]
         /\ engine' = FALSE
         /\ ret' = [op |-> "load", agent_id |-> agent_id, error |-> ""]
         /\ UNCHANGED <<clock, uuid, db, saved, est>>

Delete(agent_id) ==
    /\ db' = Storage_delete(db, agent_id)
    /\ saved' = [saved EXCEPT ![agent_id] = None]
    /\ ret' = [op |-> "delete", agent_id |-> agent_id]
    /\ UNCHANGED <<cso, clock, uuid, engine, est>>

-----------------------------------------------------------------------------
(* The cost estimator applied to two texts *)

Estimate ==
    /\ ~est.done
    /\ est' = [est EXCEPT !.done = TRUE,
                          !.ta = estimate_tokens(est.a),
                          !.tb = estimate_tokens(est.b)]
    /\ UNCHANGED <<cso, clock, uuid, engine, ret, db, saved>>

-----------------------------------------------------------------------------
(* Specifications *)

\* the engine used directly, as the benchmark does
EngineNext ==
    \/ \E content \in Contents, critical \in BOOLEAN :
          uuid < MaxFacts /\ Remember(content, critical)
    \/ NewEngine
    \/ \E t \in Models, m \in Budgets : Prioritize(t, m)
    \/ \E t \in Models, m \in Budgets : ReconstructionStats(t, m)
    \/ \E t \in Models, q \in Tasks, m \in Budgets : BuildContextPrompt(t, q, m)

EngineSpec == Init /\ [][EngineNext]_vars

\* the agent API with its storage
AgentNext ==
    \/ \E a \in AgentIds : clock + 2 <= MaxClock /\ Create(a)
    \/ \E content \in Contents, critical \in BOOLEAN :
          uuid < MaxDbFacts /\ clock + 1 <= MaxClock /\ Remember(content, critical)
    \/ \E n \in 1..(MaxDbFacts + 1) : Forget(FactId(n))
    \/ \E p \in Providers, q \in Tasks, b \in TokenBudgets : Ask(q, p, b)
    \/ \E p \in Providers \cap PROVIDERS, b \in TokenBudgets : Stats(p, b)
    \/ Save
    \/ \E a \in AgentIds : Load(a)
    \/ \E a \in AgentIds : Delete(a)

AgentSpec == Init /\ [][AgentNext]_vars

\* the engine and the agent reading and changing one small store
ReadNext ==
    \/ \E content \in Contents, critical \in BOOLEAN :
          uuid < MaxDbFacts /\ Remember(content, critical)
    \/ \E n \in 1..MaxDbFacts : Forget(FactId(n))
    \/ NewEngine
    \/ \E t \in Models, m \in Budgets : Prioritize(t, m)
    \/ \E t \in Models, m \in Budgets : ReconstructionStats(t, m)
    \/ \E t \in Models, q \in Tasks, m \in Budgets : BuildContextPrompt(t, q, m)
    \/ \E p \in Providers, q \in Tasks, b \in TokenBudgets : Ask(q, p, b)
    \/ \E p \in Providers, b \in TokenBudgets : Stats(p, b)

ReadSpec == Init /\ [][ReadNext]_vars

EstInit ==
    /\ cso = CognitiveStateObject_create("a1", 0)
    /\ clock = 2
    /\ uuid = 0
    /\ engine = FALSE
    /\ ret = [op |-> "create"]
    /\ db = [a \in AgentIds |-> NoRow]
    /\ saved = [a \in AgentIds |-> None]
    /\ est \in [a : Texts, b : Texts, done : {FALSE}, ta : {0}, tb : {0}]

EstSpec == EstInit /\ [][Estimate]_vars

-----------------------------------------------------------------------------
(* Properties of the selection (EngineSpec) *)

\* the budget the last selection ran with
RetBudget == budget_for(ret.target_model, ret.max_tokens)

\* position of a fact of the store, by identifier
PosOf(id) == CHOOSE i \in 1..Len(cso.memory_facts) : cso.memory_facts[i].id = id

IsSelected(f) == \E i \in 1..Len(ret.selected) : ret.selected[i].id = f.id

StoreFacts == {cso.memory_facts[i] : i \in 1..Len(cso.memory_facts)}

\* C1: prioritize called with max_tokens <= 0 (zero or negative) returns an
\* empty selection, whatever the store holds.
C1_ZeroBudgetEmpty ==
    (ret.op = "prioritize" /\ ret.max_tokens # None /\ ret.max_tokens[1] <= 0)
        => ret.selected = <<>>

\* C2: with a positive budget, the token counts of the facts prioritize
\* returns sum to at most the budget, no fact whose token count alone exceeds
\* the budget is returned, and reconstruction_stats reports
\* tokens_used <= token_budget.
C2_WithinBudget ==
    /\ (ret.op = "prioritize" /\ RetBudget > 0) =>
          /\ SumTokens(ret.selected) <= RetBudget
          /\ \A f \in StoreFacts : f.token_count > RetBudget => ~IsSelected(f)
    /\ (ret.op = "reconstruction_stats" /\ RetBudget > 0) =>
          /\ ret.value.token_budget = RetBudget
          /\ ret.value.tokens_used <= ret.value.token_budget

\* C2 witness: a selection under budget 1 over a store holding a two-token
\* fact, which returned something.
C2_Witness ==
    /\ ret.op = "prioritize"
    /\ ret.max_tokens = Some(1)
    /\ \E f \in StoreFacts : f.token_count = 2
    /\ ret.selected # <<>>

\* C3 (as claimed): the list prioritize returns preserves source order: of
\* two selected facts, the one earlier in the store comes first.
C3_SourceOrder ==
    ret.op = "prioritize" =>
        \A i, j \in 1..Len(ret.selected) :
            i < j => PosOf(ret.selected[i].id) < PosOf(ret.selected[j].id)

\* C3 (amended): the list prioritize returns is in working order: critical
\* facts before non-critical ones, ascending token count within the same
\* criticality, and source order only among facts equal in both.
C3_WorkingOrder ==
    ret.op = "prioritize" =>
        \A i, j \in 1..Len(ret.selected) :
            i < j =>
                LET a == ret.selected[i]
                    b == ret.selected[j]
                IN  /\ a.critical \/ ~b.critical
                    /\ a.critical = b.critical => a.token_count <= b.token_count
                    /\ (a.critical = b.critical /\ a.token_count = b.token_count)
                          => PosOf(a.id) < PosOf(b.id)

\* C3 witness: a returned list whose first fact sits behind its second in
\* the store, and one holding two facts of equal criticality and cost.
C3_Witness ==
    /\ ret.op = "prioritize"
    /\ Len(ret.selected) = 3
    /\ PosOf(ret.selected[1].id) > PosOf(ret.selected[2].id)
    /\ ret.selected[2].critical = ret.selected[3].critical
    /\ ret.selected[2].token_count = ret.selected[3].token_count

\* C4: every selection runs over current costs: the token count of each
\* fact a selection uses equals estimate_tokens of its content, also for
\* facts appended after the engine was constructed.
C4_CurrentCosts ==
    ret.op = "prioritize" =>
        \A i \in 1..Len(ret.selected) :
            ret.selected[i].token_count = estimate_tokens(ret.selected[i].content)

\* C5: if the budget is at least the sum of the token counts of all
\* critical facts, every critical fact of the store is in the list
\* prioritize returns, whatever non-critical facts the store holds.
C5_CriticalSufficiency ==
    (ret.op = "prioritize" /\ RetBudget >= SumTokens(critical_facts(cso))) =>
        \A f \in StoreFacts : f.critical => IsSelected(f)

\* C5 witness: the budget covers the critical facts but not the whole
\* store, and a non-critical fact comes first in the store.
C5_Witness ==
    /\ ret.op = "prioritize"
    /\ Len(critical_facts(cso)) >= 2
    /\ ~cso.memory_facts[1].critical
    /\ RetBudget >= SumTokens(critical_facts(cso))
    /\ RetBudget < SumTokens(cso.memory_facts)
    /\ \A f \in StoreFacts : f.critical => f.token_count > 0

C11_ZeroIffNoCritical ==
    ret.op = "reconstruction_stats" =>
        /\ ret.value.critical_recovery_rate \in 0..1000
        /\ ret.value.critical_selected <= ret.value.critical_total
        /\ (ret.value.critical_recovery_rate = 0) <=> (ret.value.critical_total = 0)

\* C11 (amended): the rate lies in [0, 1], with critical_selected <=
\* critical_total; it is 0 when critical_total = 0 and also when the store
\* holds critical facts but none is selected, and it is 1 when every
\* critical fact of a store that has some is selected.
C11_RateRange ==
    ret.op = "reconstruction_stats" =>
        /\ ret.value.critical_recovery_rate \in 0..1000
        /\ ret.value.critical_selected \in 0..ret.value.critical_total
        /\ ret.value.critical_total = Len(critical_facts(cso))
        /\ ret.value.critical_total = 0 => ret.value.critical_recovery_rate = 0
        /\ ret.value.critical_selected = 0 => ret.value.critical_recovery_rate = 0
        /\ (ret.value.critical_total > 0 /\
               ret.value.critical_selected = ret.value.critical_total)
             => ret.value.critical_recovery_rate = 1000

\* C11 witness: statistics over a store with two critical facts of which
\* one is selected (rate 0.5).
C11_Witness ==
    /\ ret.op = "reconstruction_stats"
    /\ ret.value.critical_total = 2
    /\ ret.value.critical_selected = 1
    /\ ret.value.critical_recovery_rate = 500

SameKey(a, b) == a.critical = b.critical /\ a.token_count = b.token_count

\* of two facts of equal criticality and cost, the later one is selected
\* only if the earlier one is
TieBreakByInsertion ==
    ret.op = "prioritize" =>
        \A i, j \in 1..Len(cso.memory_facts) :
            (i < j /\ SameKey(cso.memory_facts[i], cso.memory_facts[j])
                   /\ IsSelected(cso.memory_facts[j]))
                => IsSelected(cso.memory_facts[i])

\* the working order is the one order of the store by criticality, then
\* cost, then position: nothing in it is left to the sort
WorkingOrderIsTotal ==
    LET w == sorted(cso.memory_facts) IN
    /\ Len(w) = Len(cso.memory_facts)
    /\ \A i \in 1..Len(w) : w[i] \in StoreFacts
    /\ \A i, j \in 1..Len(w) :
          i < j =>
              \/ w[i].critical /\ ~w[j].critical
              \/ w[i].critical = w[j].critical /\ w[i].token_count < w[j].token_count
              \/ SameKey(w[i], w[j]) /\ PosOf(w[i].id) < PosOf(w[j].id)

\* a prioritize call repeated with the same arguments right after another
\* returns the same list
RepeatedCallAgrees ==
    (ret.op = "prioritize" /\ ret'.op = "prioritize"
        /\ ret'.target_model = ret.target_model /\ ret'.max_tokens = ret.max_tokens)
    => (ret'.selected = ret.selected /\ cso' = cso)

\* C12: facts of equal criticality and cost are considered in insertion
\* order, so a later-inserted fact is never selected while an earlier one of
\* the same criticality and cost is left out, the working order is fixed by
\* criticality, cost and position alone, and a repeated prioritize call on the
\* unchanged store with the same budget returns the identical selection.
C12_StableDeterministic ==
    [](TieBreakByInsertion /\ WorkingOrderIsTotal) /\ [][RepeatedCallAgrees]_vars

\* C12 witness: of two facts of equal criticality and cost the earlier one
\* is selected and the later one is left out, under a positive budget.
C12_Witness ==
    /\ ret.op = "prioritize"
    /\ RetBudget > 0
    /\ \E i, j \in 1..Len(cso.memory_facts) :
          /\ i < j
          /\ SameKey(cso.memory_facts[i], cso.memory_facts[j])
          /\ cso.memory_facts[i].token_count > 0
          /\ IsSelected(cso.memory_facts[i])
          /\ ~IsSelected(cso.memory_facts[j])

\* positions of the critical facts of the store, and of the selected ones
CriticalPos == {i \in 1..Len(cso.memory_facts) : cso.memory_facts[i].critical}

SelectedCriticalPos == {i \in CriticalPos : IsSelected(cso.memory_facts[i])}

RECURSIVE CostOf(_)
CostOf(P) ==
    IF P = {} THEN 0
    ELSE LET i == CHOOSE x \in P : TRUE
         IN  cso.memory_facts[i].token_count + CostOf(P \ {i})

\* i comes before j in ascending cost, ties by insertion order
CheaperFirst(i, j) ==
    \/ cso.memory_facts[i].token_count < cso.memory_facts[j].token_count
    \/ cso.memory_facts[i].token_count = cso.memory_facts[j].token_count /\ i < j

\* C14: under a positive budget the critical facts prioritize selects are
\* the longest prefix of the critical facts in ascending cost (ties by
\* insertion order) whose cumulative cost is within the budget; the same
\* critical facts are selected from the store without its non-critical
\* facts; and no set of critical facts within the budget is larger.
C14_GreedyCriticalPrefix ==
    (ret.op = "prioritize" /\ RetBudget > 0) =>
        LET S == SelectedCriticalPos
            alone == prioritize([cso EXCEPT !.memory_facts = critical_facts(cso)],
                                ret.target_model, ret.max_tokens).selected
        IN  /\ \A i \in CriticalPos, j \in S : CheaperFirst(i, j) => i \in S
            /\ CostOf(S) <= RetBudget
            /\ \A i \in CriticalPos \ S :
                  CostOf(S) + cso.memory_facts[i].token_count > RetBudget
            /\ {alone[k].id : k \in 1..Len(alone)} = {cso.memory_facts[i].id : i \in S}
            /\ \A T \in SUBSET CriticalPos :
                  CostOf(T) <= RetBudget => Cardinality(T) <= Cardinality(S)

\* C14 witness: two critical facts of costs 2 and 1 in that insertion order
\* and a non-critical fact, under budget 2: the cheaper critical fact is
\* selected and the costlier one dropped.
C14_Witness ==
    /\ ret.op = "prioritize"
    /\ ret.max_tokens = Some(2)
    /\ Len(cso.memory_facts) = 3
    /\ CriticalPos = {1, 2}
    /\ cso.memory_facts[1].token_count = 2
    /\ cso.memory_facts[2].token_count = 1
    /\ SelectedCriticalPos = {2}

-----------------------------------------------------------------------------
(* Properties of the agent and its storage (AgentSpec) *)

\* C7: last-updated is refreshed on every mutation of the store: remember
\* and a forget that deletes a fact change updated_at, and a forget of an
\* absent identifier changes neither the fact sequence nor updated_at.
C7_MutationRefreshes ==
    [][ret'.op \in {"remember", "forget"} =>
          ((Ids(cso') # Ids(cso)) <=> (cso'.updated_at # cso.updated_at))]_vars

\* same agent identifier, same facts (identifier, content, critical flag) in
\* the same order, same timestamps
Equivalent(x, y) ==
    /\ x.agent_id = y.agent_id
    /\ Len(x.memory_facts) = Len(y.memory_facts)
    /\ \A i \in 1..Len(x.memory_facts) :
          /\ x.memory_facts[i].id = y.memory_facts[i].id
          /\ x.memory_facts[i].content = y.memory_facts[i].content
          /\ x.memory_facts[i].critical = y.memory_facts[i].critical
    /\ x.created_at = y.created_at
    /\ x.updated_at = y.updated_at

\* C8: load(agent_id) returns a state equivalent to the state as it was when
\* last saved under that identifier (identifiers, content, critical flags,
\* order, timestamps), and saving the same state again changes nothing.
C8_RoundTrip ==
    /\ (ret.op = "load" /\ ret.error = "") =>
          Equivalent(cso, saved[ret.agent_id][1])
    /\ ret.op = "save" =>
          /\ Storage_save(db, cso) = db
          /\ Equivalent(Storage_load(db, cso.agent_id)[1], cso)

\* C8 witness: a load that returned two facts differing in content and in
\* the critical flag, with their costs computed.
C8_Witness ==
    /\ ret.op = "load"
    /\ ret.error = ""
    /\ Len(cso.memory_facts) = 2
    /\ cso.memory_facts[1].critical /\ ~cso.memory_facts[2].critical
    /\ cso.memory_facts[1].content # cso.memory_facts[2].content
    /\ cso.memory_facts[1].token_count > 0

\* C9: load(agent_id) raises not-found exactly when the identifier was
\* never saved or was deleted since its last save, and a row is in the table
\* exactly while its identifier is saved and not deleted since: no other
\* operation removes it.
C9_NotFoundExactly ==
    /\ \A a \in AgentIds : (db[a] = NoRow) <=> (saved[a] = None)
    /\ ret.op = "load" =>
          ((ret.error = "ValueError") <=> (saved[ret.agent_id] = None))

\* C9 witness: a load that raised not-found while the other identifier
\* is still saved.
C9_Witness ==
    /\ ret.op = "load"
    /\ ret.error = "ValueError"
    /\ \E a \in AgentIds : a # ret.agent_id /\ saved[a] # None

-----------------------------------------------------------------------------
(* Properties of the cost estimator (EstSpec) *)

CeilDiv(n, d) == (n + d - 1) \div d

\* C10 (as claimed): the estimator returns max(1, ceil(length / 4)).
C10_CeilFormula ==
    est.done => est.ta = Max(1, CeilDiv(Len(est.a), 4))

\* C10 (amended): the estimator returns max(1, floor(length / 4)): 1 for
\* texts shorter than 4 characters, else the t with 4t <= length < 4t + 4;
\* the result is at least 1 and does not decrease as the text gets longer.
C10_FloorFormula ==
    est.done =>
        /\ IF Len(est.a) < 4 THEN est.ta = 1
           ELSE 4 * est.ta <= Len(est.a) /\ Len(est.a) < 4 * est.ta + 4
        /\ est.ta >= 1
        /\ Len(est.a) <= Len(est.b) => est.ta <= est.tb

\* C10 witness: a five-character text estimated at one token, where the
\* ceiling would give two, next to a longer text.
C10_Witness ==
    /\ est.done
    /\ Len(est.a) = 5
    /\ est.ta = 1
    /\ Len(est.b) = 8
    /\ est.tb = 2

-----------------------------------------------------------------------------
(* Properties of the read-only operations (ReadSpec) *)

ReadOnlyOps ==
    {"engine", "prioritize", "reconstruction_stats", "build_context_prompt",
     "ask", "stats"}

\* C13: engine construction, prioritize, reconstruction_stats,
\* build_context_prompt, ask and stats leave the cognitive state as it was
\* but for the token counts: same agent identifier, same facts (identifier,
\* content, critical flag) in the same order, same created_at and updated_at.
C13_ReadOnly ==
    [][ret'.op \in ReadOnlyOps => Equivalent(cso, cso')]_vars

\* C13 witness: statistics were taken of a store whose source order is not
\* its working order (a non-critical fact ahead of a cheaper critical one),
\* with its costs computed and both facts selected.
C13_Witness ==
    /\ ret.op \in {"stats", "reconstruction_stats"}
    /\ Len(cso.memory_facts) = 2
    /\ ~cso.memory_facts[1].critical /\ cso.memory_facts[2].critical
    /\ cso.memory_facts[1].token_count > cso.memory_facts[2].token_count
    /\ cso.memory_facts[2].token_count > 0
    /\ ret.value.selected_facts = 2

====
